---- MODULE Spec2Model ----
(***************************************************************************)
(* Model of the BadgerDB buffer manager (src/src/buffer.cpp): a pool of    *)
(* numBufs frames managed with the clock replacement policy, a hash table  *)
(* from (file, pageNo) to frame number, and the files behind the pool.     *)
(* Every public method of BufMgr is one action; the private allocBuf is an *)
(* operator that runs the whole clock loop.                                *)
(***************************************************************************)
EXTENDS Integers, Sequences, FiniteSets, TLC

\* ---- bounds of the model ------------------------------------------------
\* The largest pool the constructor is called with.
MaxBufs == 3
\* The largest pin count a readPage hit is taken from.
MaxPin == 2
\* The number of calls in a run.
MaxSteps == 6
\* The number of calls in a run with holders that write (SpecData).
MaxDataSteps == 5
\* The number of calls in a run on a pool of one frame (SpecRound).
MaxRoundSteps == 9

\* ---- values of the collaborators (File, Page, BufDesc) -------------------
\* File(): the default-constructed file a cleared descriptor records.
NoFile == 0
\* Page::INVALID_NUMBER, the page number of a default-constructed page.
INVALID_NUMBER == 0

\* Two open files.
Files == {1, 2}
\* The page numbers of a file: page 1 exists from the start, page 2 is the
\* page allocatePage() adds.
PageIds == {1, 2}
FirstPages == {1}
\* The contents a page can have.
Vals == {0, 1}
\* The content file f stores in its first page at the start; a page added by
\* allocatePage() is empty (0).
FirstContent(f) == f - 1

VARIABLES
  numBufs,       \* BufMgr::numBufs
  clockHand,     \* BufMgr::clockHand
  bufDescTable,  \* BufMgr::bufDescTable, frame number -> BufDesc
  bufPool,       \* BufMgr::bufPool, frame number -> Page
  hashTable,     \* BufMgr::hashTable, set of (file, pageNo, frameNo) entries
  numPages,      \* per file: number of pages allocated in the file
  disk,          \* per file and page number: the content stored in the file
  pins,          \* history: per (file, pageNo), successful pins minus unpins
  owed,          \* history: per (file, pageNo), what its last holder left
  last,          \* history: the last call, its arguments and its outcome
  steps,         \* history: the number of calls made so far
  limit          \* the number of calls the run is given

vars == <<numBufs, clockHand, bufDescTable, bufPool, hashTable, numPages, disk, pins, owed, last, steps, limit>>

Frames == 0..(numBufs - 1)

\* ---- BufDesc -------------------------------------------------------------
\* BufDesc::clear(): the descriptor d after clear().
ClearDesc(d) ==
  [d EXCEPT !.file = NoFile, !.pageNo = INVALID_NUMBER, !.pinCnt = 0,
            !.dirty = FALSE, !.valid = FALSE, !.refbit = FALSE]

\* BufDesc::Set(file, pageNo).
SetDesc(d, f, p) ==
  [d EXCEPT !.file = f, !.pageNo = p, !.pinCnt = 1,
            !.dirty = FALSE, !.valid = TRUE, !.refbit = TRUE]

\* The descriptor the constructor leaves in frame i.
NewDesc(i) ==
  [frameNo |-> i, file |-> NoFile, pageNo |-> INVALID_NUMBER, pinCnt |-> 0,
   dirty |-> FALSE, valid |-> FALSE, refbit |-> FALSE]

\* ---- Page and File -------------------------------------------------------
\* Page(): a default-constructed page.
NewPage == [pn |-> INVALID_NUMBER, val |-> 0]

\* File::readPage(pageNo): the page stored in the file under pageNo.
FileReadPage(d, f, p) == [pn |-> p, val |-> d[f][p]]

\* File::writePage(page): stores the page under its own page number.
FileWritePage(d, f, page) == [d EXCEPT ![f][page.pn] = page.val]

\* ---- BufHashTbl ----------------------------------------------------------
HashHas(h, f, p) == \E e \in h : e.file = f /\ e.pageNo = p

HashLookup(h, f, p) == (CHOOSE e \in h : e.file = f /\ e.pageNo = p).frameNo

HashInsert(h, f, p, fr) == h \cup {[file |-> f, pageNo |-> p, frameNo |-> fr]}

HashRemove(h, f, p) == {e \in h : ~(e.file = f /\ e.pageNo = p)}

\* ---- the state a method works on, and what it reports --------------------
Cur ==
  [numBufs |-> numBufs, clockHand |-> clockHand, bufDescTable |-> bufDescTable,
   bufPool |-> bufPool, hashTable |-> hashTable, numPages |-> numPages,
   disk |-> disk, err |-> "none", frame |-> -1, hit |-> FALSE,
   reads |-> 0, writes |-> <<>>, advances |-> 0]

\* ---- BufMgr::advanceClock ------------------------------------------------
advanceClock(s) ==
  [s EXCEPT !.clockHand = (s.clockHand + 1) % s.numBufs, !.advances = @ + 1]

\* ---- BufMgr::allocBuf ----------------------------------------------------
\* EvictVictim without the write of line 91.
EvictVictimNoWrite(s) ==
  LET h == s.clockHand
      d == s.bufDescTable[h]
  IN IF d.dirty
       THEN IF ~HashHas(s.hashTable, d.file, d.pageNo)
              THEN [s EXCEPT !.err = "HashNotFound"]
              ELSE [s EXCEPT !.hashTable = HashRemove(@, d.file, d.pageNo),
                             !.bufDescTable[h] = ClearDesc(d)]
       ELSE s

\* The eviction of the frame under the hand (lines 83-98): only a dirty
\* victim is written back, removed from the hash table and cleared.
EvictVictim(s) ==
  LET h == s.clockHand
      d == s.bufDescTable[h]
  IN IF d.dirty
       THEN LET w == [s EXCEPT !.disk = FileWritePage(s.disk, d.file, s.bufPool[h]),
                               !.writes = Append(@, [file |-> d.file,
                                                     pn |-> s.bufPool[h].pn,
                                                     val |-> s.bufPool[h].val])]
            IN IF ~HashHas(w.hashTable, d.file, d.pageNo)
                 THEN [w EXCEPT !.err = "HashNotFound"]
                 ELSE [w EXCEPT !.hashTable = HashRemove(@, d.file, d.pageNo),
                                !.bufDescTable[h] = ClearDesc(d)]
       ELSE s

\* IsPinned that takes a pin count of 0 for a pin.
IsPinnedNonNegative(d) == d.pinCnt >= 0

\* IsPinned with the comparison off by one.
IsPinnedOffByOne(d) == d.pinCnt > 1

\* Whether a valid frame with a clear refbit is skipped as pinned (line 78).
IsPinned(d) == d.pinCnt > 0

RECURSIVE allocLoop(_, _)
\* The while loop of allocBuf (lines 63-99) with pinned_frame = pinned.
\* The result carries pinned_frame in field frame until allocBuf sets it.
allocLoop(s, pinned) ==
  IF ~(pinned < s.numBufs)
    THEN [s EXCEPT !.frame = pinned]
    ELSE LET t == advanceClock(s)
             d == t.bufDescTable[t.clockHand]
         IN IF ~d.valid THEN [t EXCEPT !.frame = pinned]
            ELSE IF d.refbit
              THEN allocLoop([t EXCEPT !.bufDescTable[t.clockHand].refbit = FALSE], pinned)
            ELSE IF IsPinned(d)
              THEN allocLoop(t, pinned + 1)
            ELSE [EvictVictim(t) EXCEPT !.frame = pinned]

\* allocBuf: the loop, then BufferExceededException or frame = clockHand.
allocBuf(s) ==
  LET t == allocLoop(s, 0)
  IN IF t.err # "none" THEN [t EXCEPT !.frame = -1]
     ELSE IF t.frame = t.numBufs THEN [t EXCEPT !.err = "BufferExceeded", !.frame = -1]
     ELSE [t EXCEPT !.frame = t.clockHand]

\* ---- BufMgr::readPage ----------------------------------------------------
\* PinDesc without line 131.
PinDescNoRefbit(d) == [d EXCEPT !.pinCnt = @ + 1]

\* The hit branch (lines 130-132) on the descriptor of the frame found.
PinDesc(d) == [d EXCEPT !.refbit = TRUE, !.pinCnt = @ + 1]

\* LoadPage without line 144.
LoadPageNoInsert(s, f, p) ==
  LET fr == s.frame
  IN [s EXCEPT !.bufPool[fr] = FileReadPage(s.disk, f, p),
               !.reads = @ + 1,
               !.bufDescTable[fr] = SetDesc(@, f, p)]

\* The miss branch after allocBuf returned frame s.frame (lines 140-147).
LoadPage(s, f, p) ==
  LET fr == s.frame
  IN [s EXCEPT !.bufPool[fr] = FileReadPage(s.disk, f, p),
               !.reads = @ + 1,
               !.hashTable = HashInsert(@, f, p, fr),
               !.bufDescTable[fr] = SetDesc(@, f, p)]

readPage(s, f, p) ==
  IF HashHas(s.hashTable, f, p)
    THEN LET fr == HashLookup(s.hashTable, f, p)
         IN [s EXCEPT !.bufDescTable[fr] = PinDesc(@), !.frame = fr, !.hit = TRUE]
    ELSE LET a == allocBuf(s)
         IN IF a.err # "none" THEN a ELSE LoadPage(a, f, p)

\* ---- BufMgr::unPinPage ---------------------------------------------------
\* UnPinDesc that stores the argument in the dirty bit.
UnPinDescOverwrite(d, dirty) == [d EXCEPT !.pinCnt = @ - 1, !.dirty = dirty]

\* Lines 180-184 on the descriptor of the frame found.
UnPinDesc(d, dirty) ==
  [d EXCEPT !.pinCnt = @ - 1, !.dirty = IF dirty THEN TRUE ELSE @]

\* unPinPage without the test of lines 176-177.
unPinPageNoCheck(s, f, p, dirty) ==
  IF HashHas(s.hashTable, f, p)
    THEN LET fr == HashLookup(s.hashTable, f, p)
         IN [s EXCEPT !.bufDescTable[fr] = UnPinDesc(@, dirty),
                      !.frame = fr, !.hit = TRUE]
    ELSE s

unPinPage(s, f, p, dirty) ==
  IF HashHas(s.hashTable, f, p)
    THEN LET fr == HashLookup(s.hashTable, f, p)
         IN IF s.bufDescTable[fr].pinCnt = 0
              THEN [s EXCEPT !.err = "PageNotPinned", !.hit = TRUE]
              ELSE [s EXCEPT !.bufDescTable[fr] = UnPinDesc(@, dirty),
                             !.frame = fr, !.hit = TRUE]
    ELSE s

\* ---- BufMgr::allocPage ---------------------------------------------------
\* The empty page File::allocatePage() creates under page number p.
EmptyPage(p) == [pn |-> p, val |-> 0]

\* File::allocatePage(): a new page under the next page number of the file.
FileAllocatePage(s, f) ==
  [s EXCEPT !.numPages[f] = @ + 1,
            !.disk = FileWritePage(@, f, EmptyPage(s.numPages[f] + 1))]

\* Lines 215-222 after allocBuf returned frame s.frame.
InstallPage(s, f, p) ==
  LET fr == s.frame
  IN [s EXCEPT !.hashTable = HashInsert(@, f, p, fr),
               !.bufDescTable[fr] = SetDesc(@, f, p),
               !.bufPool[fr] = EmptyPage(p)]

allocPage(s, f) ==
  LET n == FileAllocatePage(s, f)
      p == n.numPages[f]
      a == allocBuf(n)
  IN IF a.err # "none" THEN a ELSE InstallPage(a, f, p)

\* ---- BufMgr::flushFile ---------------------------------------------------
\* The body of the loop for one frame that belongs to the file (lines 249-268).
FlushFrame(s, f, i) ==
  LET bd == s.bufDescTable[i]
  IN IF bd.pinCnt > 0 THEN [s EXCEPT !.err = "PagePinned", !.frame = i]
     ELSE IF ~bd.valid THEN [s EXCEPT !.err = "BadBuffer", !.frame = i]
     ELSE LET w == IF bd.dirty
                     THEN [s EXCEPT !.disk = FileWritePage(s.disk, f,
                                                FileReadPage(s.disk, f, bd.pageNo)),
                                    !.reads = @ + 1,
                                    !.writes = Append(@, [file |-> f, pn |-> bd.pageNo,
                                                          val |-> s.disk[f][bd.pageNo]]),
                                    !.bufDescTable[i].dirty = FALSE]
                     ELSE s
          IN IF ~HashHas(w.hashTable, f, bd.pageNo)
               THEN [w EXCEPT !.err = "HashNotFound", !.frame = i]
               ELSE [w EXCEPT !.hashTable = HashRemove(@, f, bd.pageNo),
                              !.bufDescTable[i] = ClearDesc(w.bufDescTable[i])]

RECURSIVE flushFrom(_, _, _)
\* The scan of bufDescTable from frame i on (line 243).
flushFrom(s, f, i) ==
  IF i >= s.numBufs THEN s
  ELSE IF s.bufDescTable[i].file = f
    THEN LET t == FlushFrame(s, f, i)
         IN IF t.err # "none" THEN t ELSE flushFrom(t, f, i + 1)
  ELSE flushFrom(s, f, i + 1)

flushFile(s, f) == flushFrom(s, f, 0)

\* ---- BufMgr::disposePage -------------------------------------------------
\* The loop of lines 289-294: bd is a copy of the descriptor, so clear()
\* leaves bufDescTable as it is; the hash table entry is removed.
disposePage(s, f, p) ==
  IF ~HashHas(s.hashTable, f, p)
    THEN [s EXCEPT !.err = "HashNotFound"]
    ELSE LET fr == HashLookup(s.hashTable, f, p)
         IN [s EXCEPT !.hashTable = HashRemove(@, f, p), !.frame = fr, !.hit = TRUE]

\* ---- the holder of a pinned page writes through its handle ---------------
modifyPage(s, i, v) == [s EXCEPT !.bufPool[i].val = v]

\* ---- the state machine ---------------------------------------------------
Keys == Files \X PageIds

\* Nothing is owed for a page: it is pinned, or it was not left dirty.
NoOwed == [val |-> -1, frame |-> -1, evicted |-> FALSE]

\* owed after the call (op, f, p, dirty) with result r. When the last holder
\* of (f, p) unpins it with dirty == true, owed records the content of the
\* frame it held; evicted is set when a readPage miss or allocPage takes that
\* frame. Pinning the page again, disposing of it or a flushFile that
\* touches the frame ends the record.
OwedAfter(r, op, f, p, dirty) ==
  IF op = "unPinPage"
    THEN IF r.err = "none" /\ r.hit /\ dirty /\ pins[<<f, p>>] = 1
           THEN [owed EXCEPT ![<<f, p>>] = [val |-> bufPool[r.frame].val,
                                            frame |-> r.frame, evicted |-> FALSE]]
           ELSE owed
  ELSE IF op = "flushFile"
    THEN [k \in Keys |->
            IF k[1] = f THEN NoOwed
            ELSE IF owed[k].frame \in Frames
                    /\ r.bufDescTable[owed[k].frame] # bufDescTable[owed[k].frame]
              THEN NoOwed
            ELSE owed[k]]
  ELSE IF op = "disposePage"
    THEN IF r.err = "none" THEN [owed EXCEPT ![<<f, p>>] = NoOwed] ELSE owed
  ELSE IF op \in {"readPage", "allocPage"} /\ r.err = "none"
    THEN [k \in Keys |->
            IF k = <<f, p>> THEN NoOwed
            ELSE IF ~r.hit /\ owed[k].frame = r.frame
              THEN [owed[k] EXCEPT !.evicted = TRUE]
            ELSE owed[k]]
  ELSE owed

Commit(r, op, f, p, dirty, newPins) ==
  /\ steps < limit
  /\ steps' = steps + 1
  /\ clockHand' = r.clockHand
  /\ bufDescTable' = r.bufDescTable
  /\ bufPool' = r.bufPool
  /\ hashTable' = r.hashTable
  /\ numPages' = r.numPages
  /\ disk' = r.disk
  /\ pins' = newPins
  /\ owed' = OwedAfter(r, op, f, p, dirty)
  /\ last' = [op |-> op, file |-> f, pageNo |-> p, dirty |-> dirty, err |-> r.err,
              frame |-> r.frame, hit |-> r.hit, reads |-> r.reads,
              writes |-> r.writes, advances |-> r.advances]
  /\ UNCHANGED <<numBufs, limit>>

\* The state after BufMgr(bufs) for a pool size in sizes, given n calls.
InitWith(sizes, n) ==
  /\ numBufs \in sizes
  /\ limit = n
  /\ clockHand = numBufs - 1
  /\ bufDescTable = [i \in Frames |-> NewDesc(i)]
  /\ bufPool = [i \in Frames |-> NewPage]
  /\ hashTable = {}
  /\ numPages = [f \in Files |-> Cardinality(FirstPages)]
  /\ disk = [f \in Files |-> [p \in PageIds |-> IF p \in FirstPages THEN FirstContent(f) ELSE 0]]
  /\ pins = [k \in Keys |-> 0]
  /\ owed = [k \in Keys |-> NoOwed]
  /\ steps = 0
  /\ last = [op |-> "init", file |-> NoFile, pageNo |-> INVALID_NUMBER, dirty |-> FALSE,
             err |-> "none", frame |-> -1, hit |-> FALSE, reads |-> 0,
             writes |-> <<>>, advances |-> 0]

Init == InitWith(1..MaxBufs, MaxSteps)

\* Runs in which the holders' writes count as calls.
InitData == InitWith(1..MaxBufs, MaxDataSteps)

\* A pool of one frame, followed over longer runs.
InitRound == InitWith({1}, MaxRoundSteps)

\* Each action is one call on the pages that exist in the file. pins counts,
\* per page, the calls that pinned it minus the calls that unpinned it;
\* disposing of a page ends its pins.
ReadPage ==
  \E f \in Files : \E p \in 1..numPages[f] :
    /\ HashHas(hashTable, f, p) => bufDescTable[HashLookup(hashTable, f, p)].pinCnt < MaxPin
    /\ pins[<<f, p>>] < MaxPin
    /\ LET r == readPage(Cur, f, p)
       IN Commit(r, "readPage", f, p, FALSE,
                 IF r.err = "none" THEN [pins EXCEPT ![<<f, p>>] = @ + 1] ELSE pins)

AllocPage ==
  \E f \in Files :
    /\ numPages[f] + 1 \in PageIds
    /\ LET r == allocPage(Cur, f)
           p == numPages[f] + 1
       IN Commit(r, "allocPage", f, p, FALSE,
                 IF r.err = "none" THEN [pins EXCEPT ![<<f, p>>] = @ + 1] ELSE pins)

UnPinPage ==
  \E f \in Files : \E p \in 1..numPages[f] : \E dirty \in BOOLEAN :
    LET r == unPinPage(Cur, f, p, dirty)
    IN Commit(r, "unPinPage", f, p, dirty,
              IF r.err = "none" /\ r.hit /\ pins[<<f, p>>] > 0
                THEN [pins EXCEPT ![<<f, p>>] = @ - 1] ELSE pins)

\* unPinPage called by a holder of the page: one unpin for each pin.
UnPinHeld ==
  \E f \in Files : \E p \in 1..numPages[f] : \E dirty \in BOOLEAN :
    /\ pins[<<f, p>>] > 0
    /\ LET r == unPinPage(Cur, f, p, dirty)
       IN Commit(r, "unPinPage", f, p, dirty,
                 IF r.err = "none" /\ r.hit
                   THEN [pins EXCEPT ![<<f, p>>] = @ - 1] ELSE pins)

FlushFile ==
  \E f \in Files :
    LET r == flushFile(Cur, f)
    IN Commit(r, "flushFile", f, INVALID_NUMBER, FALSE, pins)

DisposePage ==
  \E f \in Files : \E p \in 1..numPages[f] :
    LET r == disposePage(Cur, f, p)
    IN Commit(r, "disposePage", f, p, FALSE,
              IF r.err = "none" THEN [pins EXCEPT ![<<f, p>>] = 0] ELSE pins)

ModifyPage ==
  \E i \in Frames : \E v \in Vals :
    /\ bufDescTable[i].valid
    /\ bufDescTable[i].pinCnt > 0
    /\ v # bufPool[i].val
    /\ LET r == modifyPage(Cur, i, v)
       IN Commit([r EXCEPT !.frame = i], "modifyPage", bufDescTable[i].file,
                 bufDescTable[i].pageNo, FALSE, pins)

\* Any sequence of calls of the five public methods.
Next ==
  \/ ReadPage
  \/ AllocPage
  \/ UnPinPage
  \/ FlushFile
  \/ DisposePage

Spec == Init /\ [][Next]_vars

\* The same with holders that write the pages they have pinned.
NextData ==
  \/ Next
  \/ ModifyPage

SpecData == InitData /\ [][NextData]_vars

\* The calls of clients that unpin only the pages they have pinned, and
\* write the pages they have pinned.
NextRound ==
  \/ ReadPage
  \/ AllocPage
  \/ UnPinHeld
  \/ FlushFile
  \/ DisposePage
  \/ ModifyPage

\* Longer runs of such clients on a pool of one frame.
SpecRound == InitRound /\ [][NextRound]_vars

\* ---- vocabulary of the properties ----------------------------------------
\* The hash table entries that map to frame i.
EntriesTo(i) == {e \in hashTable : e.frameNo = i}

\* Frame i is valid and records identity (f, p).
Holds(i, f, p) ==
  /\ bufDescTable[i].valid
  /\ bufDescTable[i].file = f
  /\ bufDescTable[i].pageNo = p

\* Every frame of the pool is valid and pinned.
AllPinned == \A i \in Frames : bufDescTable[i].valid /\ bufDescTable[i].pinCnt > 0

\* The step just taken called allocBuf: a readPage miss or an allocPage.
Allocated(l) == (l.op = "readPage" /\ ~l.hit) \/ l.op = "allocPage"

\* C1: in every reachable state a frame with valid == false has pinCnt 0,
\* dirty false and refbit false, and no hash table entry maps to it.
C1_InvalidFrameIsEmpty ==
  \A i \in Frames :
    ~bufDescTable[i].valid =>
      /\ bufDescTable[i].pinCnt = 0
      /\ ~bufDescTable[i].dirty
      /\ ~bufDescTable[i].refbit
      /\ EntriesTo(i) = {}

\* C2: in every reachable state every valid frame is the target of exactly
\* one hash table entry, and that entry's key is the frame's recorded
\* (file, pageNo).
C2_ValidFrameHasOneEntry ==
  \A i \in Frames :
    bufDescTable[i].valid =>
      EntriesTo(i) = {[file |-> bufDescTable[i].file,
                       pageNo |-> bufDescTable[i].pageNo, frameNo |-> i]}

\* C3: in every reachable state no two distinct valid frames record the same
\* (file, pageNo), also after disposePage(f, p) followed by readPage(f, p).
C3_NoTwoFramesSameIdentity ==
  \A i, j \in Frames :
    (i # j /\ bufDescTable[i].valid /\ bufDescTable[j].valid) =>
      ~(bufDescTable[i].file = bufDescTable[j].file
        /\ bufDescTable[i].pageNo = bufDescTable[j].pageNo)

\* C4: a page with more successful pins (readPage, allocPage) than unpins
\* stays in its frame, with its identity and content, until it is unpinned:
\* no call other than the holder's own write takes the frame from it.
C4_PinnedPageStays ==
  [][\A f \in Files : \A p \in PageIds : \A i \in Frames :
       (pins[<<f, p>>] > 0 /\ Holds(i, f, p) /\ pins'[<<f, p>>] > 0
        /\ last'.op # "modifyPage")
         => (Holds(i, f, p)' /\ bufPool'[i] = bufPool[i])]_vars

\* C5: a call of allocBuf fails with BufferExceeded only when every frame is
\* valid and pinned: from a pool and clock hand in which some frame is
\* invalid or unpinned, allocBuf does not raise BufferExceeded.
C5_ExceededOnlyWhenAllPinned ==
  [][(Allocated(last') /\ last'.err = "BufferExceeded") => AllPinned]_vars

\* The step leaves the pool, the hash table, the clock hand and the files
\* as they were.
NothingChanged ==
  /\ bufDescTable' = bufDescTable
  /\ bufPool' = bufPool
  /\ hashTable' = hashTable
  /\ clockHand' = clockHand
  /\ disk' = disk
  /\ numPages' = numPages

\* C6 as stated: when every frame is valid and pinned, a readPage miss or
\* allocPage fails with BufferExceeded and leaves every descriptor (valid,
\* identity, pinCnt, dirty, refbit) exactly as it was.
C6_ExceededLeavesDescriptors ==
  [][(AllPinned /\ Allocated(last')) =>
       (last'.err = "BufferExceeded" /\ bufDescTable' = bufDescTable)]_vars

\* C6 amended: when every frame is valid and pinned, a readPage miss or
\* allocPage fails with BufferExceeded and leaves valid, identity, pinCnt and
\* dirty of every frame as they were; the scan clears every refbit, and the
\* hash table and the page slots are unchanged.
C6_ExceededClearsOnlyRefbits ==
  [][(AllPinned /\ Allocated(last')) =>
       /\ last'.err = "BufferExceeded"
       /\ bufDescTable' = [i \in Frames |-> [bufDescTable[i] EXCEPT !.refbit = FALSE]]
       /\ hashTable' = hashTable
       /\ bufPool' = bufPool]_vars

\* C6 witness: an allocation has just failed on a pool of at least two
\* frames, all valid and pinned.
C6_Witness ==
  /\ Allocated(last)
  /\ last.err = "BufferExceeded"
  /\ numBufs > 1
  /\ AllPinned

\* C7: readPage(f, p) on an identity present in the hash table reads and
\* writes no file, adds exactly one to that frame's pinCnt and sets its
\* refbit, and leaves everything else unchanged: the other frames, the
\* frame's valid, identity and dirty, the hash table and the clock hand.
C7_HitPinsOnly ==
  [][\A f \in Files : \A p \in PageIds :
       (last'.op = "readPage" /\ last'.file = f /\ last'.pageNo = p
        /\ HashHas(hashTable, f, p))
         => LET fr == HashLookup(hashTable, f, p)
            IN /\ last'.err = "none"
               /\ last'.frame = fr
               /\ last'.reads = 0
               /\ last'.writes = <<>>
               /\ bufDescTable' = [bufDescTable EXCEPT
                                     ![fr] = [@ EXCEPT !.pinCnt = @ + 1,
                                                       !.refbit = TRUE]]
               /\ bufPool' = bufPool
               /\ hashTable' = hashTable
               /\ clockHand' = clockHand
               /\ disk' = disk
               /\ numPages' = numPages]_vars

\* C7 witness: readPage has just hit a page that was already pinned.
C7_Witness ==
  /\ last.op = "readPage"
  /\ last.hit
  /\ last.err = "none"
  /\ bufDescTable[last.frame].pinCnt = 2

\* C8: after a successful readPage miss for (f, p), or a successful allocPage
\* that returned p, the returned frame is valid, records (f, p), has
\* pinCnt 1, refbit set and dirty clear, holds the content the file stores
\* for the page, and the hash table maps (f, p) to that frame.
C8_LoadedFrame ==
  (Allocated(last) /\ last.err = "none") =>
     LET fr == last.frame
     IN /\ fr \in Frames
        /\ Holds(fr, last.file, last.pageNo)
        /\ bufDescTable[fr].pinCnt = 1
        /\ bufDescTable[fr].refbit
        /\ ~bufDescTable[fr].dirty
        /\ bufPool[fr] = FileReadPage(disk, last.file, last.pageNo)
        /\ HashHas(hashTable, last.file, last.pageNo)
        /\ HashLookup(hashTable, last.file, last.pageNo) = fr

\* C8 witness: a readPage miss or allocPage has just succeeded after writing
\* back the dirty page it evicted.
C8_Witness ==
  /\ Allocated(last)
  /\ last.err = "none"
  /\ last.writes # <<>>

\* C9: unPinPage(f, p, dirty) on a page in the hash table whose pinCnt is 0
\* fails with PageNotPinned, and on an identity absent from the hash table
\* it returns normally; either way no descriptor, hash table entry, clock
\* hand or file content changes, whatever the dirty argument.
C9_UnpinOfUnpinned ==
  [][\A f \in Files : \A p \in PageIds :
       (last'.op = "unPinPage" /\ last'.file = f /\ last'.pageNo = p) =>
         /\ (HashHas(hashTable, f, p)
             /\ bufDescTable[HashLookup(hashTable, f, p)].pinCnt = 0)
              => (last'.err = "PageNotPinned" /\ NothingChanged)
         /\ ~HashHas(hashTable, f, p)
              => (last'.err = "none" /\ NothingChanged)]_vars

\* C9 witness: unPinPage with dirty == true has just failed with
\* PageNotPinned.
C9_Witness ==
  /\ last.op = "unPinPage"
  /\ last.err = "PageNotPinned"
  /\ last.dirty

\* C10: a successful unPinPage(f, p, markDirty) on a page in the hash table
\* with pinCnt > 0 subtracts exactly one from that frame's pinCnt and sets
\* dirty to (old dirty or markDirty); it changes no other field of the
\* frame, no other frame, no hash table entry and not the clock hand.
C10_UnpinEffect ==
  [][\A f \in Files : \A p \in PageIds :
       (last'.op = "unPinPage" /\ last'.file = f /\ last'.pageNo = p
        /\ HashHas(hashTable, f, p)
        /\ bufDescTable[HashLookup(hashTable, f, p)].pinCnt > 0)
         => LET fr == HashLookup(hashTable, f, p)
            IN /\ last'.err = "none"
               /\ bufDescTable' = [bufDescTable EXCEPT
                                     ![fr] = [@ EXCEPT !.pinCnt = @ - 1,
                                                       !.dirty = @ \/ last'.dirty]]
               /\ bufPool' = bufPool
               /\ hashTable' = hashTable
               /\ clockHand' = clockHand
               /\ disk' = disk
               /\ numPages' = numPages]_vars

\* C10 witness: unPinPage with markDirty == false has just succeeded on a
\* frame that is still dirty.
C10_Witness ==
  /\ last.op = "unPinPage"
  /\ last.err = "none"
  /\ last.hit
  /\ ~last.dirty
  /\ bufDescTable[last.frame].dirty

\* C11: when a readPage miss or allocPage takes over a frame that is valid
\* and dirty (the frame no longer holds its page afterwards), the call writes
\* exactly one page: the content the frame held before the call, to the file
\* and page number the frame recorded; the file stores that content
\* afterwards, so the write precedes the loading of the new page.
C11_DirtyVictimWrittenOnce ==
  [][\A i \in Frames :
       (Allocated(last') /\ bufDescTable[i].valid /\ bufDescTable[i].dirty
        /\ ~(/\ bufDescTable'[i].valid
             /\ bufDescTable'[i].file = bufDescTable[i].file
             /\ bufDescTable'[i].pageNo = bufDescTable[i].pageNo
             /\ bufPool'[i] = bufPool[i]))
         => /\ last'.writes = <<[file |-> bufDescTable[i].file,
                                 pn |-> bufDescTable[i].pageNo,
                                 val |-> bufPool[i].val]>>
            /\ disk'[bufDescTable[i].file][bufDescTable[i].pageNo] = bufPool[i].val]_vars

\* C11 witness: a readPage miss or allocPage has just succeeded in a frame
\* whose dirty page it wrote back with a content that differs from the one
\* the file started with.
C11_Witness ==
  /\ Allocated(last)
  /\ last.err = "none"
  /\ Len(last.writes) = 1
  /\ last.writes[1].pn \in FirstPages
  /\ last.writes[1].val # FirstContent(last.writes[1].file)

\* C12: when the last holder of (f, p) has unpinned it with dirty == true,
\* the frame the holder left has then been taken by a readPage miss or
\* allocPage, and readPage(f, p) is called and succeeds, the content of the
\* frame readPage returns is the content the holder left.
C12_RoundTrip ==
  [][\A f \in Files : \A p \in PageIds :
       (last'.op = "readPage" /\ last'.file = f /\ last'.pageNo = p
        /\ last'.err = "none" /\ owed[<<f, p>>].evicted)
         => bufPool'[last'.frame].val = owed[<<f, p>>].val]_vars

\* C13: disposePage(f, p) on a page with no hash table entry fails with
\* HashNotFound and changes no state; on a page in the hash table whose frame
\* is unpinned it succeeds, leaves that frame cleared (valid, dirty and refbit
\* false, pinCnt 0) and leaves the hash table without an entry for (f, p).
C13_DisposeEffect ==
  [][\A f \in Files : \A p \in PageIds :
       (last'.op = "disposePage" /\ last'.file = f /\ last'.pageNo = p) =>
         /\ ~HashHas(hashTable, f, p)
              => (last'.err = "HashNotFound" /\ NothingChanged)
         /\ (HashHas(hashTable, f, p)
             /\ bufDescTable[HashLookup(hashTable, f, p)].pinCnt = 0)
              => LET fr == HashLookup(hashTable, f, p)
                 IN /\ last'.err = "none"
                    /\ ~bufDescTable'[fr].valid
                    /\ bufDescTable'[fr].pinCnt = 0
                    /\ ~bufDescTable'[fr].dirty
                    /\ ~bufDescTable'[fr].refbit
                    /\ ~HashHas(hashTable', f, p)]_vars

\* The frames that belong to file f: the frames flushFile(f) works on.
FramesOf(f) == {i \in Frames : bufDescTable[i].file = f}

\* The frames of file f that are pinned.
PinnedOf(f) == {i \in FramesOf(f) : bufDescTable[i].pinCnt > 0}

\* The lowest frame number in a non-empty set of frames.
Lowest(S) == CHOOSE i \in S : \A j \in S : i <= j

\* C14: flushFile(f) on a pool with a pinned frame of f fails with PagePinned
\* at the lowest such frame k; every frame of f below k has then been written
\* back if it was dirty, removed from the hash table and cleared, and frame k,
\* the frames above k and the frames of other files are unchanged.
C14_FlushStopsAtPinned ==
  [][\A f \in Files :
       (last'.op = "flushFile" /\ last'.file = f /\ PinnedOf(f) # {}) =>
         LET k == Lowest(PinnedOf(f))
         IN /\ last'.err = "PagePinned"
            /\ last'.frame = k
            /\ \A i \in Frames :
                 IF i \in FramesOf(f) /\ i < k
                   THEN /\ bufDescTable'[i] = ClearDesc(bufDescTable[i])
                        /\ ~HashHas(hashTable', f, bufDescTable[i].pageNo)
                        /\ bufDescTable[i].dirty =>
                             \E n \in 1..Len(last'.writes) :
                               /\ last'.writes[n].file = f
                               /\ last'.writes[n].pn = bufDescTable[i].pageNo
                   ELSE bufDescTable'[i] = bufDescTable[i]]_vars

\* C15: for every frame of file f that is valid, unpinned and dirty when
\* flushFile(f) processes it, the file stores afterwards, under the frame's
\* page number, the content the frame held, and the frame is removed from the
\* hash table and cleared. A frame is processed when the call completes, or
\* fails at a frame above it.
C15_FlushWritesFrameContent ==
  [][\A f \in Files : \A i \in Frames :
       (last'.op = "flushFile" /\ last'.file = f
        /\ i \in FramesOf(f) /\ bufDescTable[i].valid
        /\ bufDescTable[i].pinCnt = 0 /\ bufDescTable[i].dirty
        /\ (last'.err = "none" \/ i < last'.frame))
         => /\ disk'[f][bufDescTable[i].pageNo] = bufPool[i].val
            /\ ~HashHas(hashTable', f, bufDescTable[i].pageNo)
            /\ bufDescTable'[i] = ClearDesc(bufDescTable[i])]_vars

\* C16: flushFile(f) completes or fails with PagePinned or BadBuffer in
\* every reachable state; it never fails with HashNotFound from removing a
\* frame's identity from the hash table.
C16_FlushFailures ==
  last.op = "flushFile" => last.err \in {"none", "PagePinned", "BadBuffer"}

\* C17: when a readPage miss or allocPage succeeds in a frame that was valid
\* (the eviction victim allocBuf selected, dirty or clean), the hash table
\* holds no entry for the victim's former (file, pageNo) afterwards, unless
\* that is the identity the call has just loaded into the frame.
C17_VictimLeavesIndex ==
  [][\A i \in Frames :
       (Allocated(last') /\ last'.err = "none" /\ last'.frame = i
        /\ bufDescTable[i].valid
        /\ ~(bufDescTable[i].file = last'.file
             /\ bufDescTable[i].pageNo = last'.pageNo))
         => ~HashHas(hashTable', bufDescTable[i].file, bufDescTable[i].pageNo)]_vars

\* The call of allocBuf in the step just taken advanced the clock hand at
\* least once and at most 2 * numBufs times, by one frame (mod numBufs) each
\* time.
BoundedSweep ==
  /\ last'.advances \in 1..(2 * numBufs)
  /\ clockHand' = (clockHand + last'.advances) % numBufs

\* C18 as stated: every call of allocBuf (a readPage miss or an allocPage)
\* ends by returning a frame or by failing with BufferExceeded, after
\* advancing the clock hand at most 2 * numBufs times, by one (mod numBufs)
\* on each iteration.
C18_AllocBufTerminates ==
  [][Allocated(last') =>
       (last'.err \in {"none", "BufferExceeded"} /\ BoundedSweep)]_vars

\* Every frame of the pool is valid.
PoolFull == \A i \in Frames : bufDescTable[i].valid

\* The empty pool has been filled by numBufs fetches of distinct pages, each
\* left pinned: numBufs calls have made every frame valid.
Filled == steps = numBufs /\ PoolFull

\* After Filled an allocation was refused and one page was then unpinned:
\* in numBufs + 2 calls every frame is valid with its refbit cleared by the
\* refused scan, and the last call unpinned the one frame that is not pinned.
Released ==
  /\ steps = numBufs + 2
  /\ PoolFull
  /\ last.op = "unPinPage" /\ last.err = "none" /\ last.hit
  /\ \A i \in Frames :
       /\ ~bufDescTable[i].refbit
       /\ bufDescTable[i].pinCnt = IF i = last.frame THEN 0 ELSE 1

\* C19: from an empty pool of N frames filled by N fetches of distinct pages,
\* each left pinned, a further readPage miss or allocPage fails with
\* BufferExceeded; when exactly one of the pages is then unpinned and the
\* allocation is retried, the retry succeeds in the frame that held the
\* unpinned page.
C19_RetryTakesUnpinnedFrame ==
  [][/\ (Filled /\ Allocated(last')) => last'.err = "BufferExceeded"
     /\ (Released /\ Allocated(last'))
          => (last'.err = "none" /\ last'.frame = last.frame)]_vars

\* C19 witness: on a pool of 3 frames the retry has just succeeded as the
\* sixth call, in frame 0 (the frame of the first page fetched), after one
\* advance of the hand; the other two pages are still pinned.
C19_Witness ==
  /\ numBufs = 3
  /\ steps = 6
  /\ Allocated(last)
  /\ last.err = "none"
  /\ last.frame = 0
  /\ last.advances = 1
  /\ PoolFull
  /\ bufDescTable[1].pinCnt = 1 /\ ~bufDescTable[1].refbit
  /\ bufDescTable[2].pinCnt = 1 /\ ~bufDescTable[2].refbit

\* C20: every successful readPage(file, pageNo), hit or miss, returns a
\* frame that is valid and records exactly (file, pageNo).
C20_ReadReturnsThePage ==
  (last.op = "readPage" /\ last.err = "none")
    => (last.frame \in Frames /\ Holds(last.frame, last.file, last.pageNo))

====
